---- MODULE Spec2Model ----
(***************************************************************************)
(* Model of the SVK power scraper's reconciliation and validation engine:  *)
(*   scripts/github_actions_runner.py  (GitHubActionsDataManager, runs)    *)
(*   scripts/data_quality_check.py     (DataQualityChecker, main)          *)
(*                                                                         *)
(* A DataFrame is a sequence of rows; a row is a record                    *)
(* [Date, Timme, MW].  Date is the calendar day as a day number (the code  *)
(* holds ISO "YYYY-MM-DD" strings, whose string order is the calendar      *)
(* order), Timme the hour slot, MW the cell of the measurement column: a   *)
(* number, a null (NaN), or text that is no number.  A negative Date stands *)
(* for a Date string that is no date (pd.to_datetime raises on it; as a    *)
(* string it sorts before every ISO date).                                 *)
(***************************************************************************)
EXTENDS Integers, Sequences, FiniteSets

VARIABLES
    master_file,   \* data/svk_master_data.csv: <<>> when absent, <<rows>> when present
    backup_dir,    \* data/backups: function from backup name (its timestamp) to rows
    state_file,    \* data/scraper_state.json: <<>> when absent, <<state>> when present
    clock,         \* wall clock (datetime.now()), in ticks
    nsaves,        \* number of save_master_data calls so far
    df_existing,   \* local of the run / first argument of merge_dataframes
    df_new,        \* local of the run / second argument of merge_dataframes
    df_merged,     \* local of the run / result of merge_dataframes
    new_rows,      \* rows the scraper returned to the last run
    pc,            \* what the program did last
    calls,         \* number of merge_dataframes calls (function-level runs)
    metrics,       \* DataQualityChecker.metrics
    exit_status,   \* exit status of data_quality_check.py: <<>> while running
    threshold_hours \* argument of a direct check_data_gaps call: <<>> when none

vars == <<master_file, backup_dir, state_file, clock, nsaves,
          df_existing, df_new, df_merged, new_rows, pc, calls,
          metrics, exit_status, threshold_hours>>

\* the variables of the runner and those of the quality checker
runner == <<backup_dir, state_file, nsaves, df_existing, df_new, df_merged,
            new_rows, calls>>
checker == <<metrics, exit_status, threshold_hours>>

-----------------------------------------------------------------------------
(* Bounds of the model *)

MaxLen == 2        \* longest input table of the function-level specification

(* The identity keys and measurement values the inputs are drawn from *)
Keys == {<<0, 0>>, <<0, 1>>, <<1, 0>>}
Num(n) == <<"num", n>>
NaN == <<"nan", 0>>
Text(n) == <<"text", n>>

Values == {Num(10), Num(20)}
Rows == {[Date |-> k[1], Timme |-> k[2], MW |-> v] : k \in Keys, v \in Values}

Tables(n) == UNION {[1..m -> Rows] : m \in 0..n}

-----------------------------------------------------------------------------
(* DataFrame primitives used by merge_dataframes *)

Key(r) == <<r.Date, r.Timme>>

KeySet(df) == {Key(df[i]) : i \in 1..Len(df)}

\* df.empty
empty(df) == Len(df) = 0

\* order of sort_values(['Date', 'Timme']): Date first, then Timme
KeyLeq(a, b) == a.Date < b.Date \/ (a.Date = b.Date /\ a.Timme <= b.Timme)

\* pd.concat([a, b], ignore_index=True)
concat(a, b) == a \o b

\* the rows of df at the positions in keep, in order
RECURSIVE TakeRows(_, _, _)
TakeRows(df, keep, i) ==
    IF i > Len(df) THEN <<>>
    ELSE IF i \in keep THEN <<df[i]>> \o TakeRows(df, keep, i + 1)
         ELSE TakeRows(df, keep, i + 1)

drop_duplicates_first(df) ==
    TakeRows(df, {i \in 1..Len(df) :
                     \A j \in 1..(i - 1) : Key(df[j]) # Key(df[i])}, 1)

drop_duplicates_none(df) ==
    TakeRows(df, {i \in 1..Len(df) :
                     \A j \in 1..Len(df) : j # i => Key(df[j]) # Key(df[i])}, 1)

\* df.drop_duplicates(subset=['Date', 'Timme'], keep='last')
drop_duplicates(df) ==
    TakeRows(df, {i \in 1..Len(df) :
                     \A j \in (i + 1)..Len(df) : Key(df[j]) # Key(df[i])}, 1)

\* df.sort_values(['Date', 'Timme']): a stable sort
RECURSIVE InsertSorted(_, _)
InsertSorted(r, s) ==
    IF s = <<>> THEN <<r>>
    ELSE IF KeyLeq(Head(s), r) THEN <<Head(s)>> \o InsertSorted(r, Tail(s))
         ELSE <<r>> \o s

RECURSIVE SortFrom(_, _, _)
SortFrom(df, i, acc) ==
    IF i > Len(df) THEN acc ELSE SortFrom(df, i + 1, InsertSorted(df[i], acc))

sort_values(df) == SortFrom(df, 1, <<>>)

merge_no_early_return(existing, new) ==
    sort_values(drop_duplicates(concat(existing, new)))

\* GitHubActionsDataManager.merge_dataframes
merge_dataframes(existing, new) ==
    IF empty(existing) THEN new
    ELSE IF empty(new) THEN existing
    ELSE sort_values(drop_duplicates(concat(existing, new)))

-----------------------------------------------------------------------------
\* DataQualityChecker.__init__: self.metrics
initial_metrics ==
    [total_records |-> 0,
     date_range |-> <<>>,
     missing_dates |-> <<>>,
     duplicate_records |-> 0,
     missing_values |-> <<>>,
     data_gaps |-> <<>>,
     value_ranges |-> <<>>,
     coverage_percentage |-> 0,
     issues_found |-> FALSE,
     checks_passed |-> <<>>,
     checks_failed |-> <<>>]

-----------------------------------------------------------------------------
(* Function-level specification: merge_dataframes applied to every pair of *)
(* bounded tables, and once more to its own result and the same batch.     *)

InitMerge ==
    /\ master_file = <<>>
    /\ backup_dir = <<>>
    /\ state_file = <<>>
    /\ clock = 0
    /\ nsaves = 0
    /\ df_existing \in Tables(MaxLen)
    /\ df_new \in Tables(MaxLen)
    /\ df_merged = <<>>
    /\ new_rows = 0
    /\ pc = "input"
    /\ calls = 0
    /\ metrics = initial_metrics
    /\ exit_status = <<>>
    /\ threshold_hours = <<>>

\* df_merged = manager.merge_dataframes(df_existing, df_new)
MergeCall ==
    /\ pc = "input"
    /\ df_merged' = merge_dataframes(df_existing, df_new)
    /\ calls' = calls + 1
    /\ pc' = "output"
    /\ UNCHANGED <<master_file, backup_dir, state_file, clock, nsaves,
                   df_existing, df_new, new_rows, checker>>

\* the result becomes the existing table of the next call with the same batch
Feed ==
    /\ pc = "output"
    /\ calls < 2
    /\ df_existing' = df_merged
    /\ pc' = "input"
    /\ UNCHANGED <<master_file, backup_dir, state_file, clock, nsaves,
                   df_new, df_merged, new_rows, calls, checker>>

NextMerge == MergeCall \/ Feed

SpecMerge == InitMerge /\ [][NextMerge]_vars

-----------------------------------------------------------------------------
(* Wall clock.  datetime.now() is a tick count; strftime truncates it.     *)

TicksPerSecond == 2                 \* clock resolution below one second
TicksPerDay == 2 * TicksPerSecond   \* the model's day is two seconds long

\* datetime.now().strftime('%Y%m%d_%H%M%S'): the instant cut to whole seconds
strftime_seconds(t) == t \div TicksPerSecond

\* d.strftime('%Y-%m-%d'): the instant cut to its calendar day
strftime_date(t) == t \div TicksPerDay

\* pd.to_datetime(date string): midnight of that day
to_datetime(d) == d * TicksPerDay

\* timedelta(days=n)
timedelta(n) == n * TicksPerDay

\* pd.date_range(start, end, freq='D'): start, start + 1 day, ... up to end
date_range(start, end) ==
    {start + timedelta(i) : i \in 0..((end - start) \div TicksPerDay)}

\* sorted(S) for a set of integers
RECURSIVE sorted(_)
sorted(S) ==
    IF S = {} THEN <<>>
    ELSE LET m == CHOOSE x \in S : \A y \in S : x <= y
         IN  <<m>> \o sorted(S \ {m})

\* GitHubActionsDataManager.get_missing_dates: the instants of the range keep
\* the time of day of now, the dates of the data are midnights
get_missing_dates(df, days_back, now) ==
    IF empty(df) THEN <<>>
    ELSE LET start_date == now - timedelta(days_back)
             rng == date_range(start_date, now)
             existing_dates == {to_datetime(df[i].Date) : i \in 1..Len(df)}
             missing == sorted(rng \ existing_dates)
         IN  [i \in 1..Len(missing) |-> strftime_date(missing[i])]

-----------------------------------------------------------------------------
(* Files *)

Header == <<"Date", "Timme", "MW">>

\* df.to_csv(file, index=False): a header line and one line of fields per row
to_csv(df) == <<Header>> \o [i \in 1..Len(df) |-> <<df[i].Date, df[i].Timme, df[i].MW>>]

\* pd.read_csv(file): one row per line after the header
read_csv(f) ==
    [i \in 1..(Len(f) - 1) |->
        [Date |-> f[i + 1][1], Timme |-> f[i + 1][2], MW |-> f[i + 1][3]]]

exists(file) == file # <<>>

\* GitHubActionsDataManager.load_master_data
load_master_data == IF exists(master_file) THEN read_csv(master_file[1]) ELSE <<>>

KeepBackups == 5

rotate_keep_oldest(names) ==
    IF Cardinality(names) > KeepBackups
    THEN {n \in names : Cardinality({m \in names : m < n}) < KeepBackups}
    ELSE names

\* sorted(glob("backup_*.csv")) and unlink of backups[:-5]: the names that stay
rotate(names) ==
    IF Cardinality(names) > KeepBackups
    THEN {n \in names : Cardinality({m \in names : m > n}) < KeepBackups}
    ELSE names

\* the backup directory after the backup block of save_master_data
backup_then_rotate(now) ==
    IF exists(master_file)
    THEN LET backup_file == strftime_seconds(now)
             written == [n \in DOMAIN backup_dir \cup {backup_file} |->
                            IF n = backup_file THEN to_csv(read_csv(master_file[1]))
                            ELSE backup_dir[n]]
         IN  [n \in rotate(DOMAIN written) |-> written[n]]
    ELSE backup_dir

MinDate(df) == CHOOSE d \in {df[i].Date : i \in 1..Len(df)} :
                   \A i \in 1..Len(df) : d <= df[i].Date
MaxDate(df) == CHOOSE d \in {df[i].Date : i \in 1..Len(df)} :
                   \A i \in 1..Len(df) : d >= df[i].Date

\* GitHubActionsDataManager.update_state
update_state(df, now) ==
    [last_update |-> now,
     total_records |-> Len(df),
     date_range |-> IF empty(df) THEN <<>> ELSE <<MinDate(df), MaxDate(df)>>]

\* GitHubActionsDataManager.save_master_data
save_master_data(df, now) ==
    /\ backup_dir' = backup_then_rotate(now)
    /\ master_file' = <<to_csv(df)>>
    /\ state_file' = <<update_state(df, now)>>
    /\ nsaves' = nsaves + 1

-----------------------------------------------------------------------------
(* Runs of github_actions_runner.py.  A run is one process: it loads the   *)
(* master file, scrapes, merges and saves.  Runs are serialized.  The      *)
(* scraper (svk_scraper.SVKPowerScraper) is an input: each call returns a  *)
(* table, possibly empty, or raises.                                        *)

Row(d, h, v) == [Date |-> d, Timme |-> h, MW |-> Num(v)]

Returned(df) == [raised |-> FALSE, df |-> df]
Raised == [raised |-> TRUE, df |-> <<>>]

Outcomes(batches) == {Raised} \cup {Returned(b) : b \in batches}

\* the run leaves the files as they are
NoSave == UNCHANGED <<master_file, backup_dir, state_file, nsaves>>

\* run_daily_scrape
RunDaily(out, now) ==
    /\ clock' = now
    /\ df_existing' = load_master_data
    /\ df_new' = out.df
    /\ new_rows' = Len(out.df)
    /\ UNCHANGED <<calls, checker>>
    /\ IF out.raised
       THEN /\ pc' = "daily_raised"
            /\ df_merged' = <<>>
            /\ NoSave
       ELSE IF ~empty(out.df)
       THEN /\ df_merged' = merge_dataframes(df_existing', df_new')
            /\ save_master_data(df_merged', now)
            /\ pc' = "daily_saved"
       ELSE /\ pc' = "daily_nodata"
            /\ df_merged' = <<>>
            /\ NoSave

\* run_custom_scrape
RunCustom(out, now) ==
    /\ clock' = now
    /\ df_existing' = load_master_data
    /\ df_new' = out.df
    /\ new_rows' = Len(out.df)
    /\ UNCHANGED <<calls, checker>>
    /\ IF out.raised
       THEN /\ pc' = "custom_raised"
            /\ df_merged' = <<>>
            /\ NoSave
       ELSE IF ~empty(out.df)
       THEN /\ df_merged' = merge_dataframes(df_existing', df_new')
            /\ save_master_data(df_merged', now)
            /\ pc' = "custom_saved"
       ELSE /\ pc' = "custom_nodata"
            /\ df_merged' = <<>>
            /\ NoSave

MaxDatesPerRun == 5

\* missing_dates[:5]
dates_to_scrape(missing_dates) ==
    IF Len(missing_dates) > MaxDatesPerRun
    THEN SubSeq(missing_dates, 1, MaxDatesPerRun)
    ELSE missing_dates

\* the loop over dates_to_scrape: outs[i] is what the scraper did for date i
RECURSIVE WeeklyLoop(_, _, _)
WeeklyLoop(df, outs, i) ==
    IF i > Len(outs) THEN df
    ELSE WeeklyLoop(IF ~outs[i].raised /\ ~empty(outs[i].df)
                    THEN merge_dataframes(df, outs[i].df)
                    ELSE df,
                    outs, i + 1)

RECURSIVE RowsObtained(_, _)
RowsObtained(outs, i) ==
    IF i > Len(outs) THEN 0 ELSE Len(outs[i].df) + RowsObtained(outs, i + 1)

\* the branch of run_weekly_scrape that ends in save_master_data
weekly_saves(missing_dates, outs) == missing_dates # <<>>

\* run_weekly_scrape (the singleton sets bind each local once)
RunWeekly(days, outcomes, now) ==
    \E loaded \in {load_master_data} :
    \E missing_dates \in {get_missing_dates(loaded, days, now)} :
    \E outs \in [1..Len(dates_to_scrape(missing_dates)) -> outcomes] :
        /\ clock' = now
        /\ df_new' = <<>>
        /\ df_merged' = <<>>
        /\ new_rows' = RowsObtained(outs, 1)
        /\ UNCHANGED <<calls, checker>>
        /\ df_existing' = WeeklyLoop(loaded, outs, 1)
        /\ IF weekly_saves(missing_dates, outs)
           THEN /\ save_master_data(df_existing', now)
                /\ pc' = "weekly_saved"
           ELSE /\ pc' = "weekly_complete"
                /\ NoSave

DaysBack == 30

\* the days argument of run_weekly_scrape: main passes 30; a one-day window
\* is the smallest in which no date is missing
WeeklyDays == {1, DaysBack}

Init ==
    /\ master_file = <<>>
    /\ backup_dir = <<>>
    /\ state_file = <<>>
    /\ clock = 0
    /\ nsaves = 0
    /\ df_existing = <<>>
    /\ df_new = <<>>
    /\ df_merged = <<>>
    /\ new_rows = 0
    /\ pc = "idle"
    /\ calls = 0
    /\ metrics = initial_metrics
    /\ exit_status = <<>>
    /\ threshold_hours = <<>>

\* the instants at which the next run can read the clock
Later(maxClock) == {t \in (clock + 1)..(clock + TicksPerSecond) : t <= maxClock}

MaxClock == 4        \* last instant of the run-level specification

\* scraped batches: empty, single rows, an unsorted batch, a batch that
\* repeats a key (a retry)
RunBatches ==
    { <<>>,
      <<Row(0, 0, 10)>>,
      <<Row(1, 0, 20)>>,
      <<Row(1, 0, 10), Row(0, 0, 20)>>,
      <<Row(0, 1, 10), Row(0, 1, 20)>> }

WeeklyBatches == { <<>>, <<Row(1, 0, 10)>> }

Daily == \E out \in Outcomes(RunBatches), now \in Later(MaxClock) : RunDaily(out, now)

Custom == \E out \in Outcomes(RunBatches), now \in Later(MaxClock) : RunCustom(out, now)

Weekly ==
    \E days \in WeeklyDays, now \in Later(MaxClock) :
        RunWeekly(days, Outcomes(WeeklyBatches), now)

Next == Daily \/ Custom \/ Weekly

Spec == Init /\ [][Next]_vars

-----------------------------------------------------------------------------
(* Run-level specification for backup retention: the same runs over a      *)
(* longer stretch of time, with small scraped batches.                     *)

MaxClockRetention == 14

RetentionBatches == { <<Row(0, 0, 10)>>, <<Row(0, 0, 20)>> }

DailyR ==
    \E out \in Outcomes(RetentionBatches), now \in Later(MaxClockRetention) :
        RunDaily(out, now)

CustomR ==
    \E out \in Outcomes(RetentionBatches), now \in Later(MaxClockRetention) :
        RunCustom(out, now)

WeeklyR ==
    \E now \in Later(MaxClockRetention) :
        RunWeekly(DaysBack, {Returned(<<>>)}, now)

NextRetention == DailyR \/ CustomR \/ WeeklyR

SpecRetention == Init /\ [][NextRetention]_vars

-----------------------------------------------------------------------------
(* data_quality_check.py: DataQualityChecker over the master file          *)

HoursPerDay == 24
SuspiciousMW == 50000
CoverageThreshold == 90
CoverageDays == 30

Dates(df) == {df[i].Date : i \in 1..Len(df)}

\* DataQualityChecker.load_data
load_data == IF exists(master_file) THEN read_csv(master_file[1]) ELSE <<>>

\* pd.to_datetime accepts the date string
parses(d) == d >= 0

\* DataQualityChecker.check_date_continuity: pd.to_datetime raises on a Date
\* that is no date, and the except branch returns the empty list
check_date_continuity(df) ==
    IF empty(df) THEN <<>>
    ELSE IF \E d \in Dates(df) : ~parses(d) THEN <<>>
    ELSE LET dates == {to_datetime(d) : d \in Dates(df)}
             min_date == CHOOSE t \in dates : \A u \in dates : t <= u
             max_date == CHOOSE t \in dates : \A u \in dates : t >= u
             expected_dates == date_range(min_date, max_date)
             missing_dates == sorted(expected_dates \ dates)
         IN  [i \in 1..Len(missing_dates) |-> strftime_date(missing_dates[i])]

\* DataQualityChecker.check_duplicates: duplicated(keep=False) marks every
\* row whose key another row holds too
check_duplicates(df) ==
    IF empty(df) THEN 0
    ELSE Cardinality({i \in 1..Len(df) :
             \E j \in 1..Len(df) : j # i /\ Key(df[j]) = Key(df[i])})

isnull(cell) == cell[1] = "nan"

\* DataQualityChecker.check_missing_values: nulls per column, columns
\* without nulls left out (Date and Timme hold no nulls here)
check_missing_values(df) ==
    IF empty(df) THEN <<>>
    ELSE LET null_count == Cardinality({i \in 1..Len(df) : isnull(df[i].MW)})
         IN  IF null_count > 0 THEN <<[column |-> "MW", missing |-> null_count]>>
             ELSE <<>>

\* groupby('Date').size()[date]
date_count(df, date) == Cardinality({i \in 1..Len(df) : df[i].Date = date})

\* DataQualityChecker.check_data_gaps: the dates with fewer than 24 rows, in
\* the ascending order of the groupby; the body never reads threshold_hours
check_data_gaps(df, threshold) ==
    IF empty(df) THEN <<>>
    ELSE LET dates == sorted(Dates(df))
             short == SelectSeq(dates, LAMBDA d : date_count(df, d) < HoursPerDay)
         IN  [i \in 1..Len(short) |->
                 [date |-> short[i],
                  hours_found |-> date_count(df, short[i]),
                  hours_missing |-> HoursPerDay - date_count(df, short[i])]]

\* pd.to_numeric(errors='coerce'): what is no number becomes NaN
to_numeric(cell) == IF cell[1] = "num" THEN cell ELSE NaN

\* DataQualityChecker.check_value_ranges for the measurement column (mean and
\* standard deviation are not modelled)
check_value_ranges(df) ==
    IF empty(df) THEN <<>>
    ELSE LET valid == {i \in 1..Len(df) : ~isnull(to_numeric(df[i].MW))}
             values == {to_numeric(df[i].MW)[2] : i \in valid}
         IN  IF valid # {}
             THEN <<[column |-> "MW",
                     min |-> CHOOSE v \in values : \A w \in values : v <= w,
                     max |-> CHOOSE v \in values : \A w \in values : v >= w,
                     outliers |-> Cardinality({i \in valid : df[i].MW[2] < 0}),
                     suspicious |->
                         Cardinality({i \in valid : df[i].MW[2] > SuspiciousMW})]>>
             ELSE <<>>

\* round(100 * actual / expected, 2), in hundredths of a percent
round2_percent(actual, expected) ==
    (2 * 10000 * actual + expected) \div (2 * expected)

\* DataQualityChecker.calculate_coverage, in hundredths of a percent: the
\* window ends keep the time of day of now, the dates of the rows are
\* midnights; pd.to_datetime raising on a Date ends in the except branch (0.0)
calculate_coverage(df, days_back, now) ==
    IF empty(df) THEN 0
    ELSE IF \E d \in Dates(df) : ~parses(d) THEN 0
    ELSE LET end_date == now
             start_date == end_date - timedelta(days_back)
             expected_dates == date_range(start_date, end_date)
             expected_records == Cardinality(expected_dates) * HoursPerDay
             actual_records ==
                 Cardinality({i \in 1..Len(df) :
                     /\ to_datetime(df[i].Date) >= start_date
                     /\ to_datetime(df[i].Date) <= end_date})
         IN  IF expected_records > 0
             THEN round2_percent(actual_records, expected_records)
             ELSE 0

\* a branch of run_all_checks: the check failed
failed(m, what) ==
    [m EXCEPT !.checks_failed = Append(@, what), !.issues_found = TRUE]

\* a branch of run_all_checks: the check passed
passed(m, what) == [m EXCEPT !.checks_passed = Append(@, what)]

gate_coverage_never_fails(m) == passed(m, "Good coverage")

\* run_all_checks: the verdict on the coverage
gate_coverage(m) ==
    IF m.coverage_percentage < CoverageThreshold * 100
    THEN failed(m, "Low coverage")
    ELSE passed(m, "Good coverage")

\* DataQualityChecker.run_all_checks
run_all_checks(df, now) ==
    IF empty(df) THEN failed(initial_metrics, "No data found") ELSE
    LET m0 == [initial_metrics EXCEPT
                  !.total_records = Len(df),
                  !.date_range = <<MinDate(df), MaxDate(df)>>]
        m1a == [m0 EXCEPT !.missing_dates = check_date_continuity(df)]
        m1 == IF m1a.missing_dates # <<>> THEN failed(m1a, "Missing dates")
              ELSE passed(m1a, "Date continuity")
        m2a == [m1 EXCEPT !.duplicate_records = check_duplicates(df)]
        m2 == IF m2a.duplicate_records > 0 THEN failed(m2a, "Found duplicates")
              ELSE passed(m2a, "No duplicates")
        m3a == [m2 EXCEPT !.missing_values = check_missing_values(df)]
        m3 == IF m3a.missing_values # <<>> THEN failed(m3a, "Missing values detected")
              ELSE passed(m3a, "No missing values")
        m4a == [m3 EXCEPT !.data_gaps = check_data_gaps(df, HoursPerDay)]
        m4 == IF m4a.data_gaps # <<>> THEN failed(m4a, "Found incomplete days")
              ELSE passed(m4a, "No data gaps")
        m5 == [m4 EXCEPT !.value_ranges = check_value_ranges(df)]
        m6 == [m5 EXCEPT !.coverage_percentage = calculate_coverage(df, CoverageDays, now)]
    IN  gate_coverage(m6)

\* main of data_quality_check.py: the exit status
exit_code(m) == IF m.issues_found THEN 1 ELSE 0

\* main of data_quality_check.py (the singleton sets bind each local once)
CheckerMain ==
    /\ pc = "idle"
    /\ \E df \in {load_data} :
          IF empty(df)
          THEN /\ metrics' = metrics
               /\ exit_status' = <<1>>
               /\ pc' = "no_data"
          ELSE \E m \in {run_all_checks(df, clock)} :
                   /\ metrics' = m
                   /\ exit_status' = <<exit_code(m)>>
                   /\ pc' = "checked"
    /\ UNCHANGED <<master_file, clock, runner, threshold_hours>>

-----------------------------------------------------------------------------
(* Specification of the quality check: the master file holds one of a      *)
(* family of tables laid out around today, or is absent; the check runs    *)
(* at some time of today.                                                  *)

Today == 40        \* day number of the day the check runs

\* hours 0..hours-1 of every day first..last, in (Date, Timme) order
Grid(first, last, hours) ==
    [i \in 1..((last - first + 1) * hours) |->
        Row(first + (i - 1) \div hours, (i - 1) % hours, 100)]

DropDay(df, d) == SelectSeq(df, LAMBDA r : r.Date # d)
DropLast(df) == SubSeq(df, 1, Len(df) - 1)
WithRepeat(df) == df \o <<df[1]>>
WithCell(df, cell) == [df EXCEPT ![1].MW = cell]
WithBadDate(df) == Append(df, Row(-1, 0, 100))

FullWindow == Grid(Today - CoverageDays, Today, HoursPerDay)

WindowTables ==
    { FullWindow,
      DropDay(FullWindow, Today - 10),
      DropLast(FullWindow),
      WithRepeat(FullWindow),
      WithCell(FullWindow, NaN),
      WithCell(FullWindow, Num(-5)),
      WithCell(FullWindow, Num(SuspiciousMW + 1)),
      WithCell(FullWindow, Text(1)),
      WithRepeat(WithCell(FullWindow, NaN)),
      DropLast(DropDay(FullWindow, Today - 10)),
      Grid(Today - CoverageDays - 2, Today, HoursPerDay),
      Grid(Today - CoverageDays + 1, Today, HoursPerDay),
      Grid(Today - CoverageDays, Today - 4, HoursPerDay),
      WithBadDate(FullWindow),
      WithBadDate(DropDay(FullWindow, Today - 10)) }

SmallTables ==
    {Grid(Today - a, Today - b, h) : a \in 1..2, b \in 0..1, h \in 1..2}
        \cup {WithRepeat(Grid(Today - 1, Today, 1)),
              WithCell(Grid(Today - 1, Today, 1), NaN),
              DropDay(Grid(Today - 2, Today, 1), Today - 1),
              DropDay(DropDay(Grid(Today - 4, Today, 1), Today - 1), Today - 3),
              WithCell(Grid(Today - 1, Today, 1), Text(1)),
              WithBadDate(Grid(Today - 1, Today, 1)),
              WithBadDate(DropDay(Grid(Today - 2, Today, 1), Today - 1))}

QualityTables == WindowTables \cup SmallTables

\* times of day: midnight sharp and later
TimesOfDay == {0, 1, TicksPerDay - 1}

InitQuality ==
    /\ master_file \in {<<>>} \cup {<<to_csv(df)>> : df \in QualityTables}
    /\ clock \in {to_datetime(Today) + tod : tod \in TimesOfDay}
    /\ backup_dir = <<>>
    /\ state_file = <<>>
    /\ nsaves = 0
    /\ df_existing = <<>>
    /\ df_new = <<>>
    /\ df_merged = <<>>
    /\ new_rows = 0
    /\ pc = "idle"
    /\ calls = 0
    /\ metrics = initial_metrics
    /\ exit_status = <<>>
    /\ threshold_hours = <<>>

NextQuality == CheckerMain

SpecQuality == InitQuality /\ [][NextQuality]_vars

-----------------------------------------------------------------------------
(* Function-level specification of check_data_gaps: a table of a few days  *)
(* with a few rows each and a caller's threshold, then one call.           *)

MaxThreshold == 3  \* largest of the small thresholds a caller passes

Thresholds == (1..MaxThreshold) \cup {HoursPerDay}

OneDay == Grid(Today, Today, HoursPerDay)

GapTables ==
    {Grid(Today - a, Today, h) : a \in 0..2, h \in 1..MaxThreshold}
        \cup {DropLast(Grid(Today - a, Today, h)) : a \in 0..2, h \in 1..MaxThreshold}
        \cup {OneDay, DropLast(OneDay), WithRepeat(OneDay)}

InitGaps ==
    /\ master_file \in {<<to_csv(df)>> : df \in GapTables}
    /\ threshold_hours \in {<<h>> : h \in Thresholds}
    /\ clock = to_datetime(Today)
    /\ backup_dir = <<>>
    /\ state_file = <<>>
    /\ nsaves = 0
    /\ df_existing = <<>>
    /\ df_new = <<>>
    /\ df_merged = <<>>
    /\ new_rows = 0
    /\ pc = "idle"
    /\ calls = 0
    /\ metrics = initial_metrics
    /\ exit_status = <<>>

\* checker.check_data_gaps(threshold_hours) on the loaded data
GapsCall ==
    /\ pc = "idle"
    /\ metrics' = [metrics EXCEPT
                      !.data_gaps = check_data_gaps(load_data, threshold_hours[1])]
    /\ pc' = "gaps"
    /\ UNCHANGED <<master_file, clock, runner, exit_status, threshold_hours>>

NextGaps == GapsCall

SpecGaps == InitGaps /\ [][NextGaps]_vars

-----------------------------------------------------------------------------
(* Properties of merge_dataframes (SpecMerge) *)

IsSorted(df) == \A i \in 1..(Len(df) - 1) : KeyLeq(df[i], df[i + 1])

HasRepeatedKey(df) ==
    \E i, j \in 1..Len(df) : i < j /\ Key(df[i]) = Key(df[j])

\* the rows of df with key k, in order
RowsOf(df, k) == SelectSeq(df, LAMBDA r : Key(r) = k)

\* the last row of df with key k (k occurs in df)
LastRow(df, k) == LET rs == RowsOf(df, k) IN rs[Len(rs)]

\* C2: the output of merge_dataframes is non-decreasing in (Date, Timme) for
\* every pair of inputs, also when one input is empty and the other unsorted.
C2_SortInvariant == pc = "output" => IsSorted(df_merged)

\* C3: merge_dataframes is idempotent in its second argument:
\* merge(merge(A, B), B) is the same row sequence as merge(A, B).  After the
\* second call df_existing holds merge(A, B) and df_merged merge(merge(A, B), B).
C3_Idempotent == (pc = "output" /\ calls = 2) => df_merged = df_existing

\* C4: last write wins.  With both inputs non-empty, a key of both inputs has
\* exactly one row in the output, the last row of incoming with that key; a key
\* of existing alone has exactly one row, the last row of existing with it.
C4_LastWriteWins ==
    (pc = "output" /\ ~empty(df_existing) /\ ~empty(df_new)) =>
        \A k \in KeySet(df_existing) :
            /\ Len(RowsOf(df_merged, k)) = 1
            /\ RowsOf(df_merged, k)[1] =
                   IF k \in KeySet(df_new) THEN LastRow(df_new, k)
                   ELSE LastRow(df_existing, k)

\* C4's case: a key held by both inputs with different values, incoming
\* repeating it with two values, and another key held by existing alone
C4_Witness ==
    /\ pc = "output"
    /\ \E k \in KeySet(df_existing) \cap KeySet(df_new) :
          /\ Len(RowsOf(df_new, k)) = 2
          /\ RowsOf(df_new, k)[1] # RowsOf(df_new, k)[2]
          /\ LastRow(df_existing, k) # LastRow(df_new, k)
          /\ RowsOf(df_merged, k) = <<LastRow(df_new, k)>>
    /\ \E k \in KeySet(df_existing) \ KeySet(df_new) :
          RowsOf(df_merged, k) = <<LastRow(df_existing, k)>>

\* C6: merge identity.  merge(A, empty) is A and merge(empty, A) is A, row for
\* row: no deduplication and no reordering in either case.
C6_MergeIdentity ==
    pc = "output" =>
        /\ empty(df_new) => df_merged = df_existing
        /\ empty(df_existing) => df_merged = df_new

\* C6's case: an empty existing table and an unsorted batch, returned in the
\* order it came in
C6_Witness ==
    /\ pc = "output"
    /\ empty(df_existing)
    /\ ~IsSorted(df_new)
    /\ df_merged = df_new

-----------------------------------------------------------------------------
(* Properties of the runs (Spec, SpecRetention) *)

MasterRows == load_master_data

Saved == {"daily_saved", "weekly_saved", "custom_saved"}

\* C1: the saved master file never holds two rows with the same
\* (Date, Timme), whatever runs came before and whatever the batches repeat.
C1_MasterKeysUnique == exists(master_file) => ~HasRepeatedKey(MasterRows)

\* C5: merge is additive.  The keys of a daily or custom run's merge result
\* are the keys of the loaded table together with the keys of the batch, the
\* result is what the run saves, and no run of any mode removes a key from
\* the master file.
C5_MergeAdditive ==
    [][ /\ KeySet(MasterRows) \subseteq KeySet(MasterRows')
        /\ pc' \in {"daily_saved", "custom_saved"} =>
              /\ KeySet(df_merged') = KeySet(MasterRows) \cup KeySet(df_new')
              /\ MasterRows' = df_merged'
        /\ pc' = "weekly_saved" => MasterRows' = df_existing'
      ]_vars

\* C5's case: a saved merge of a non-empty master with a batch, each holding
\* a key the other lacks and both holding a common key
C5_Witness ==
    /\ pc \in {"daily_saved", "custom_saved"}
    /\ KeySet(df_existing) \ KeySet(df_new) # {}
    /\ KeySet(df_new) \ KeySet(df_existing) # {}
    /\ KeySet(df_new) \cap KeySet(df_existing) # {}
    /\ KeySet(MasterRows) = KeySet(df_existing) \cup KeySet(df_new)

\* C7: after seven save_master_data calls from an empty data directory
\* exactly five backups remain, and there are never more than five.
C7_BackupRetention ==
    /\ Cardinality(DOMAIN backup_dir) <= KeepBackups
    /\ nsaves = 7 => Cardinality(DOMAIN backup_dir) = KeepBackups

\* C8: a run saves only when it obtained new data: a run whose scrapes all
\* returned an empty table or raised does not call save_master_data.
C8_SaveOnlyWithNewData == pc \in Saved => new_rows > 0

-----------------------------------------------------------------------------
(* Properties of the quality check (SpecQuality) *)

\* one of the five gating checks fails on the metrics
SomeCheckFails(m) ==
    \/ m.missing_dates # <<>>
    \/ m.duplicate_records > 0
    \/ m.missing_values # <<>>
    \/ m.data_gaps # <<>>
    \/ m.coverage_percentage < CoverageThreshold * 100

\* C9: on a non-empty dataset the check exits with status 0 exactly when none
\* of the five gating checks failed, which is when checks_failed is empty, and
\* with a non-zero status when one failed; the value ranges have no say.
C9_ExitContract ==
    pc = "checked" =>
        /\ exit_status = <<0>> <=> ~SomeCheckFails(metrics)
        /\ exit_status = <<0>> <=> metrics.checks_failed = <<>>
        /\ exit_status # <<0>> <=> metrics.checks_failed # <<>>
        /\ Len(metrics.checks_failed) + Len(metrics.checks_passed) = 5

\* C9's case: a table with a negative measurement passes all five checks and
\* the check exits with status 0
C9_Witness ==
    /\ pc = "checked"
    /\ exit_status = <<0>>
    /\ metrics.value_ranges # <<>>
    /\ metrics.value_ranges[1].outliers > 0
    /\ metrics.checks_failed = <<>>

\* every calendar day from the day of now - CoverageDays to the day of now has
\* exactly 24 rows
EveryDayComplete(df, now) ==
    \A d \in strftime_date(now - timedelta(CoverageDays))..strftime_date(now) :
        date_count(df, d) = HoursPerDay

\* C10: at any time of day, a table with exactly 24 rows for every calendar
\* day of [now - 30 days, now] has a coverage of 100.0 over 30 days back.
C10_FullWindowCoverage ==
    (pc = "checked" /\ EveryDayComplete(load_data, clock)) =>
        metrics.coverage_percentage = 100 * 100

-----------------------------------------------------------------------------
(* Properties of the single checks (SpecQuality) *)

\* the calendar dates the data holds (what is no date is none of them)
PresentDates(df) == {d \in Dates(df) : parses(d)}

\* the calendar dates between the first and the last date of the data that
\* no row holds
SpanGaps(df) ==
    {d \in Today - CoverageDays - 3 .. Today :
        /\ d \notin PresentDates(df)
        /\ \E lo \in PresentDates(df) : lo < d
        /\ \E hi \in PresentDates(df) : hi > d}

Ascending(seq) == \A i \in 1..(Len(seq) - 1) : seq[i] < seq[i + 1]

AsSet(seq) == {seq[i] : i \in 1..Len(seq)}

\* C11: check_date_continuity returns exactly the calendar dates between the
\* first and the last date of the data that no row holds, ascending and
\* without repetition; it returns the empty list for empty data and for a
\* span with every date present.
C11_MissingDatesExact ==
    /\ check_date_continuity(<<>>) = <<>>
    /\ pc = "checked" =>
           /\ Ascending(metrics.missing_dates)
           /\ AsSet(metrics.missing_dates) = SpanGaps(load_data)

\* C11's case: a table with two separate days without rows
C11_Witness ==
    /\ pc = "checked"
    /\ Cardinality(SpanGaps(load_data)) = 2
    /\ Len(metrics.missing_dates) = 2

\* C14: when some Date values are no dates and others are, the dates missing
\* between the first and the last parseable date are still all reported, and
\* a real gap still fails the date continuity check.
C14_GapReportedDespiteBadDates ==
    (/\ pc = "checked"
     /\ \E d \in Dates(load_data) : ~parses(d)
     /\ SpanGaps(load_data) # {}) =>
        /\ SpanGaps(load_data) \subseteq AsSet(metrics.missing_dates)
        /\ ~(\E i \in 1..Len(metrics.checks_passed) :
                 metrics.checks_passed[i] = "Date continuity")

\* C12: for every expected number of hours per day, a date is reported as
\* incomplete exactly when it has fewer rows than expected, with hours_found
\* its number of rows and hours_missing the expected number less that; a date
\* with as many rows as expected or more is never reported.
C12_GapsFollowThreshold ==
    pc = "gaps" =>
        LET df == load_data
            expected == threshold_hours[1]
            gaps == metrics.data_gaps
        IN  /\ \A d \in Dates(df) :
                   date_count(df, d) < expected
                       <=> \E i \in 1..Len(gaps) : gaps[i].date = d
            /\ \A i \in 1..Len(gaps) :
                   /\ gaps[i].hours_found = date_count(df, gaps[i].date)
                   /\ gaps[i].hours_missing = expected - gaps[i].hours_found

\* the rows whose measurement check_value_ranges drops although it is not
\* null: the text that is no number
DroppedByCoercion(df) ==
    {i \in 1..Len(df) : ~isnull(df[i].MW) /\ isnull(to_numeric(df[i].MW))}

\* C13: every non-null measurement that check_value_ranges drops because it
\* is no number is counted by check_missing_values, so a table with such a
\* measurement fails the missing values check.
C13_DroppedValuesCounted ==
    (pc = "checked" /\ DroppedByCoercion(load_data) # {}) =>
        /\ metrics.missing_values # <<>>
        /\ metrics.missing_values[1].missing
               >= Cardinality(DroppedByCoercion(load_data))
        /\ \E i \in 1..Len(metrics.checks_failed) :
               metrics.checks_failed[i] = "Missing values detected"

\* the exit status of a run that found issues, and of a run that found none
IssuesStatus == exit_code(failed(initial_metrics, "Missing dates"))
CleanStatus == exit_code(initial_metrics)

\* C15: the exit status tells three outcomes apart: no data to check, data
\* checked with issues found, data checked without issues; the status of a
\* run without data is neither of the other two.
C15_ThreeExitStatuses ==
    /\ IssuesStatus # CleanStatus
    /\ pc = "checked" => exit_status \in {<<IssuesStatus>>, <<CleanStatus>>}
    /\ pc = "no_data" =>
           /\ exit_status # <<IssuesStatus>>
           /\ exit_status # <<CleanStatus>>

-----------------------------------------------------------------------------
(* Properties of the backups (SpecRetention) *)

\* C16: every save_master_data call that overwrites an existing master file
\* first writes a backup with the rows the master file held before the call,
\* and the rotation of the same call leaves this newest backup in place.
C16_BackupBeforeOverwrite ==
    [][(nsaves' = nsaves + 1 /\ exists(master_file)) =>
          LET backup_file == strftime_seconds(clock')
          IN  /\ backup_file \in DOMAIN backup_dir'
              /\ read_csv(backup_dir'[backup_file]) = read_csv(master_file[1])]_vars

\* C16's case: the rotation has deleted a backup (so many saves cannot have
\* left only backups later than second 1 otherwise), the directory is at its
\* limit, and the backup of the save just made holds the rows the master
\* file held before it was overwritten with other rows
C16_Witness ==
    /\ pc \in Saved
    /\ nsaves > 2 * (KeepBackups + 1)
    /\ Cardinality(DOMAIN backup_dir) = KeepBackups
    /\ \A n \in DOMAIN backup_dir : n > 1
    /\ state_file[1].last_update = clock
    /\ strftime_seconds(clock) \in DOMAIN backup_dir
    /\ backup_dir[strftime_seconds(clock)] # master_file[1]

====
